---------------------------- MODULE Spec2Model ----------------------------
(***************************************************************************)
(* Session layer of tclib: the websocket transport with its outbound       *)
(* sequence counter (tclib/protocol.py), the dispatcher and the handlers   *)
(* (tclib/client.py), the event normalizer (tclib/_process_event.py) and   *)
(* the participant directory (tclib/users.py, tclib/data/user.py).         *)
(*                                                                         *)
(* One action is one run of a coroutine from the point it is resumed to    *)
(* the point it suspends again (asyncio is cooperative: nothing else runs  *)
(* in between).  The event loop runs its ready callbacks in FIFO order, so *)
(* tasks made by create_task take their first step in creation order and   *)
(* before the coroutine that made them is resumed again.                   *)
(***************************************************************************)
EXTENDS Integers, Sequences, FiniteSets, TLC

\* ------------------------------------------------------------------ bounds
MaxFrames   == 3   \* inbound frames received over the whole run
MaxSessions == 2   \* websocket objects created (1 connect + reconnects)
MaxDisconnects == 3   \* calls of TinychatClient.disconnect
MaxPolls == 2   \* getTaskResult requests of one solver that were answered not ready
MaxRequests == 2   \* calls of web.request

VARIABLES
  mainPc,   \* position of the coroutine running TinychatClient.connect
  mainHot,  \* TRUE: the receive loop runs on without suspending (a frame is buffered)
  conn,     \* number of TinychatWebSocket objects created so far (the newest one)
  ws,       \* TinychatClient.ws: the websocket object the client holds, 0 = None
  wsOpen,   \* the newest websocket object is in the open state
  req,      \* TinychatWebSocket._req of every websocket object
  sent,     \* envelopes written to a socket, in write order
  frames,   \* inbound frames received by the receive loop, in arrival order
  tasks,    \* tasks[k]: the task create_task made for frames[k]
  users,    \* Users: the participant table
  banned,   \* Users: the ban entries
  client,   \* Users.client: handle of the local client, 0 = None
  atStart,  \* the frame whose handler body started last, the Directory it found
            \* and the payload it was called with
  attempts, \* the calls of TinychatClient.connect: what the gateway fetch and the
            \* socket open gave, the websocket object made, how the call ended
  discs,    \* the calls of TinychatClient.disconnect: the websocket object held,
            \* whether it was open, whether a close frame was sent, the clean_up
            \* argument, the handler task that called (0: the application)
  acak,     \* the option 'acak' (TinychatClient._anti_captcha_key) has length 32
  sub,      \* sub[k]: what the await of the handler of frames[k] returned (got) and
            \* the not-ready answers its captcha solver has had (polls)
  handlers, \* the events e for which the client has an attribute on_<e>
  web,      \* the calls of web.request: method, what the session did, what the
            \* caller got
  greenroom,\* RoomState: the green room flag
  stale     \* websocket objects that are open and are not the newest one

vars == <<mainPc, mainHot, conn, ws, wsOpen, req, sent, frames, tasks,
          users, banned, client, atStart, attempts, discs, acak, sub, handlers, web, greenroom, stale>>

\* ------------------------------------------------------------------ frames
\* Every inbound frame has the same shape; a field a frame type does not
\* carry keeps its default.
Frame(tc, h, n, ok, acct, mod, items) ==
  [tc |-> tc, h |-> h, n |-> n, ok |-> ok, acct |-> acct, mod |-> mod, items |-> items]

Item(h, n) == [h |-> h, n |-> n, acct |-> FALSE, mod |-> FALSE]

Ping            == Frame("ping", 0, "", FALSE, FALSE, FALSE, <<>>)
Joined(h, mod)  == Frame("joined", h, "a", FALSE, FALSE, mod, <<>>)
SysBanned       == Frame("sysmsg", 0, "banned", FALSE, FALSE, FALSE, <<>>)
Join(h, n, a)   == Frame("join", h, n, FALSE, a, FALSE, <<>>)
Nick(h, n)      == Frame("nick", h, n, FALSE, FALSE, FALSE, <<>>)
Quit(h)         == Frame("quit", h, "", FALSE, FALSE, FALSE, <<>>)
Userlist(its)   == Frame("userlist", 0, "", FALSE, FALSE, FALSE, its)
Banlist(its)    == Frame("banlist", 0, "", FALSE, FALSE, FALSE, its)
Gated(tc, h, ok) == Frame(tc, h, "a", ok, FALSE, FALSE, <<>>)

Password        == Frame("password", 0, "", FALSE, FALSE, FALSE, <<>>)
Captcha         == Frame("captcha", 0, "", FALSE, FALSE, FALSE, <<>>)
Closed          == Frame("closed", 0, "", FALSE, FALSE, FALSE, <<>>)
Iceservers      == Frame("iceservers", 0, "", FALSE, FALSE, FALSE, <<>>)

\* a text or media event of participant h with the text or title t; h = 0:
\* the event data has no 'handle'; ok: the media event is a response
Said(tc, h, t)  == Frame(tc, h, t, FALSE, FALSE, FALSE, <<>>)
\* publish, unpublish, pending_moderation of participant h
Cam(tc, h)      == Frame(tc, h, "", FALSE, FALSE, FALSE, <<>>)
\* a system notice with the text t
Sysmsg(t)       == Frame("sysmsg", 0, t, FALSE, FALSE, FALSE, <<>>)
RoomSettings    == Frame("room_settings", 0, "", FALSE, FALSE, FALSE, <<>>)

GatedEvents == {"ban", "unban", "stream_moder_allow", "stream_moder_close"}

\* frames of the transport runs: pings and events whose handlers send
FramesT == {Ping, Joined(1, TRUE), SysBanned}

\* frames of the captcha runs
FramesS == {Captcha}

\* frames of the password runs: the password request, an event the
\* normalizer has no branch for, an event no handler is defined for
FramesP == {Password, Closed, Iceservers}

\* the text and media events
MessageEvents == {"msg", "pvtmsg", "yut_play", "yut_pause", "yut_stop"}

\* frames of the message runs: a participant joins and leaves, text and
\* media events of that participant, a media event without a handle
FramesM ==
  {Join(2, "a", FALSE), Quit(2), Said("yut_play", 0, "t")}
  \cup {Said(tc, 2, "t") : tc \in MessageEvents}

\* frames of the room runs: the client joins as a moderator or not, a
\* participant joins, a ban list, system notices, broadcasting events, a
\* change of the room settings
FramesG ==
  {Joined(1, TRUE), Joined(1, FALSE), Join(2, "a", FALSE), Banlist(<<Item(2, "a")>>), RoomSettings}
  \cup {Sysmsg(t) : t \in {"banned", "green room enabled", "green room disabled",
                           "banned, green room enabled"}}
  \cup {Cam(tc, 2) : tc \in {"publish", "unpublish", "pending_moderation"}}

\* the events whose normalization changes the Directory
MutatingEvents == {"join", "nick", "quit", "userlist", "banlist", "ban", "unban"}

\* frames of the runs of clients that lack handlers: one frame of every
\* event that changes the Directory, and the client's own join
FramesH ==
  {Joined(1, FALSE), Join(2, "a", FALSE), Nick(2, "b"), Quit(2),
   Userlist(<<Item(1, "a"), Item(2, "a")>>), Banlist(<<Item(2, "a")>>),
   Gated("ban", 2, TRUE), Gated("unban", 2, TRUE)}

\* frames of the handshake runs: password requests (the handler sends when
\* the input arrives, which may be during a later handshake)
FramesJ == {Password}

\* frames of the directory runs
FramesD ==
  {Joined(1, FALSE), Join(1, "b", FALSE), Join(2, "a", TRUE), Join(2, "b", FALSE),
   Nick(2, "b"), Nick(1, "b"), Quit(2),
   Userlist(<<Item(1, "a"), Item(2, "a")>>), Banlist(<<Item(2, "a")>>)}
  \cup {Gated(tc, 2, ok) : tc \in GatedEvents, ok \in BOOLEAN}

\* --------------------------------------------------------------- directory
NoUser == [handle |-> 0, nick |-> "", old_nicks |-> <<>>, mod |-> FALSE, acct |-> FALSE,
           bc |-> FALSE, wait |-> FALSE, msgs |-> <<>>]

\* a buggy constructor: the nick history starts empty
NewUserNoHistory(it) ==
  [handle |-> it.h, nick |-> it.n, old_nicks |-> <<>>, mod |-> it.mod, acct |-> it.acct,
   bc |-> FALSE, wait |-> FALSE, msgs |-> <<>>]

\* User.__init__: the nick history starts as [nick], is_broadcasting and
\* is_waiting are False, messages is empty
NewUser(it) ==
  [handle |-> it.h, nick |-> it.n, old_nicks |-> <<it.n>>, mod |-> it.mod, acct |-> it.acct,
   bc |-> FALSE, wait |-> FALSE, msgs |-> <<>>]

\* Users.search: the participant with that handle, or None
Search(U, h) ==
  IF \E u \in U : u.handle = h THEN CHOOSE u \in U : u.handle = h ELSE NoUser

\* a buggy add: always inserts a new record
AddAlwaysInsert(U, it) == U \cup {NewUser(it)}

\* Users.add: add-or-update, idempotent on the handle; a re-add updates the
\* record in place and appends to the nick history
Add(U, it) ==
  IF \E u \in U : u.handle = it.h
  THEN {IF u.handle = it.h
        THEN [u EXCEPT !.nick = it.n, !.old_nicks = Append(@, it.n),
                       !.mod = it.mod, !.acct = it.acct]
        ELSE u : u \in U}
  ELSE U \cup {NewUser(it)}

\* Users.change_nick: rename and append to the nick history; unknown handle: no change
ChangeNick(U, h, n) ==
  {IF u.handle = h THEN [u EXCEPT !.nick = n, !.old_nicks = Append(@, n)] ELSE u : u \in U}

\* Users.delete: remove by handle
Delete(U, h) == {u \in U : u.handle # h}

NoBan == [h |-> 0, n |-> ""]
BanEntry(f) == [h |-> f.h, n |-> f.n]

\* Users.add_banned_user / delete_banned_user / clear_banlist
AddBanned(B, e) == IF \E b \in B : b.h = e.h THEN B ELSE B \cup {e}
SearchBanned(B, h) == IF \E b \in B : b.h = h THEN CHOOSE b \in B : b.h = h ELSE NoBan
DeleteBanned(B, h) == {b \in B : b.h # h}
ClearBanlist(B) == {}

\* the Directory as one value
Dir(U, B, c) == [users |-> U, banned |-> B, client |-> c]

\* ------------------------------------------------------------- normalizer
RECURSIVE UserlistLoopKeepsClient(_, _, _, _)
\* a buggy loop: the client's own entry is returned with the others
UserlistLoopKeepsClient(its, U, c, acc) ==
  IF its = <<>> THEN [users |-> U, list |-> acc, err |-> FALSE]
  ELSE IF c = 0 THEN [users |-> Add(U, Head(its)), list |-> acc, err |-> TRUE]
       ELSE UserlistLoopKeepsClient(Tail(its), Add(U, Head(its)), c, Append(acc, Head(its).h))

RECURSIVE UserlistLoop(_, _, _, _)
\* the loop of ProcessEvent._process_userlist: every item is added; the
\* client's own handle is left out of the returned list; reading
\* users.client.handle raises when users.client is still None
UserlistLoop(its, U, c, acc) ==
  IF its = <<>> THEN [users |-> U, list |-> acc, err |-> FALSE]
  ELSE LET U1 == Add(U, Head(its))
       IN IF c = 0 THEN [users |-> U1, list |-> acc, err |-> TRUE]
          ELSE UserlistLoop(Tail(its), U1, c,
                            IF Head(its).h # c THEN Append(acc, Head(its).h) ELSE acc)

RECURSIVE BanlistLoop(_, _)
\* the loop of ProcessEvent._process_banlist
BanlistLoop(its, B) ==
  IF its = <<>> THEN B ELSE BanlistLoop(Tail(its), AddBanned(B, [h |-> Head(its).h, n |-> Head(its).n]))

\* result of a normalization: the Directory after it, whether run_method is
\* reached, whether the normalizer raised, and the payload (a handle, 0 = None,
\* and for userlist the list of handles)
NoMessage == [type |-> "", text |-> ""]

\* TextMessage(text, event), YoutubeMessage(event_data)
Message(f) == [type |-> f.tc, text |-> f.n]

\* msg: the message object the normalizer made; argc: the number of
\* arguments run_method passes to the handler
Norm(D, run, err, arg, list) ==
  [dir |-> D, run |-> run, err |-> err, arg |-> arg, list |-> list, msg |-> NoMessage, argc |-> 1]

\* run_method(method, *(user, msg))
WithUser(D, h, m) == [Norm(D, TRUE, FALSE, h, <<>>) EXCEPT !.msg = m, !.argc = 2]

\* a buggy _process_join: the handler is called for a participant that was not added
ProcessJoinNoAdd(f, D) == Norm(D, TRUE, FALSE, f.h, <<>>)

ProcessJoin(f, D) == Norm([D EXCEPT !.users = Add(@, f)], TRUE, FALSE, f.h, <<>>)

\* a buggy _process_nick: the participant is looked up but not renamed
ProcessNickNoRename(f, D) == Norm(D, TRUE, FALSE, Search(D.users, f.h).handle, <<>>)

ProcessNick(f, D) ==
  Norm([D EXCEPT !.users = ChangeNick(@, f.h, f.n)], TRUE, FALSE, Search(D.users, f.h).handle, <<>>)

ProcessQuit(f, D) ==
  Norm([D EXCEPT !.users = Delete(@, f.h)], TRUE, FALSE, Search(D.users, f.h).handle, <<>>)

ProcessUserlist(f, D) ==
  LET r == UserlistLoop(f.items, D.users, D.client, <<>>)
  IN Norm([D EXCEPT !.users = r.users], ~r.err, r.err, 0, r.list)

ProcessBanlist(f, D) ==
  Norm([D EXCEPT !.banned = BanlistLoop(f.items, @)], TRUE, FALSE, 0, <<>>)

\* a buggy success gate: the flag is not inspected
GateIgnored(f) == TRUE

\* the success gate of _process_ban, _process_unban, _process_stream_moder_*
Gate(f) == f.ok

ProcessBan(f, D) ==
  IF Gate(f) THEN Norm([D EXCEPT !.banned = AddBanned(@, BanEntry(f))], TRUE, FALSE, f.h, <<>>)
  ELSE Norm(D, FALSE, FALSE, 0, <<>>)

ProcessUnban(f, D) ==
  IF Gate(f)
  THEN Norm([D EXCEPT !.banned = DeleteBanned(@, f.h)], TRUE, FALSE, SearchBanned(D.banned, f.h).h, <<>>)
  ELSE Norm(D, FALSE, FALSE, 0, <<>>)

\* _process_stream_moder_allow and _process_stream_moder_close
ProcessStreamModer(f, D) ==
  IF Gate(f) THEN Norm(D, TRUE, FALSE, Search(D.users, f.h).handle, <<>>)
  ELSE Norm(D, FALSE, FALSE, 0, <<>>)

\* a buggy _process_yut_stop: the handler is called with a participant too
ProcessYutStopWithUser(f, D) == WithUser(D, Search(D.users, f.h).handle, Message(f))

\* _process_yut_stop: the handler is called with the message alone
ProcessYutStop(f, D) == [Norm(D, TRUE, FALSE, 0, <<>>) EXCEPT !.msg = Message(f)]

\* _process_msg (msg and pvtmsg) and _process_yut_pause: the participant
\* with the handle of the event data, or None, and the message
ProcessMsg(f, D) == WithUser(D, Search(D.users, f.h).handle, Message(f))

\* _process_yut_play: the participant is looked up only if the event data
\* has a 'handle'
ProcessYutPlay(f, D) ==
  WithUser(D, IF f.h = 0 THEN 0 ELSE Search(D.users, f.h).handle, Message(f))

\* _process_broadcasting: publish, unpublish, pending_moderation
ProcessBroadcasting(f, D) == Norm(D, TRUE, FALSE, Search(D.users, f.h).handle, <<>>)

\* the events ProcessEvent.process has a branch for
KnownEvents ==
  {"join", "nick", "quit", "msg", "pvtmsg", "yut_play", "yut_pause", "yut_stop",
   "publish", "unpublish", "pending_moderation", "userlist", "banlist", "ban", "unban",
   "stream_moder_allow", "stream_moder_close", "captcha", "password"}

\* a buggy pass-through: the handler is called without the event data
PassThroughEmpty(f, D) == Norm(D, TRUE, FALSE, Frame("", 0, "", FALSE, FALSE, FALSE, <<>>), <<>>)

\* the else branch of process: run_method(method, event_data), the payload
\* is the frame itself
PassThrough(f, D) == Norm(D, TRUE, FALSE, f, <<>>)

\* _process_password and _process_captcha: one field of the event data is
\* passed on, the Directory is not touched
ProcessField(f, D) == Norm(D, TRUE, FALSE, 0, <<>>)

\* ProcessEvent.process: the normalization of one frame
Process(f, D) ==
  CASE f.tc = "join"     -> ProcessJoin(f, D)
    [] f.tc = "nick"     -> ProcessNick(f, D)
    [] f.tc = "quit"     -> ProcessQuit(f, D)
    [] f.tc = "userlist" -> ProcessUserlist(f, D)
    [] f.tc = "banlist"  -> ProcessBanlist(f, D)
    [] f.tc = "ban"      -> ProcessBan(f, D)
    [] f.tc = "unban"    -> ProcessUnban(f, D)
    [] f.tc \in {"stream_moder_allow", "stream_moder_close"} -> ProcessStreamModer(f, D)
    [] f.tc \in {"captcha", "password"} -> ProcessField(f, D)
    [] f.tc \in {"msg", "pvtmsg", "yut_pause"} -> ProcessMsg(f, D)
    [] f.tc = "yut_play" -> ProcessYutPlay(f, D)
    [] f.tc = "yut_stop" -> ProcessYutStop(f, D)
    [] f.tc \in {"publish", "unpublish", "pending_moderation"} -> ProcessBroadcasting(f, D)
    [] OTHER             -> PassThrough(f, D)

\* ---------------------------------------------------------------- handlers
\* what a handler body does up to its first suspension: the Directory after
\* it, where it stops ("done", "raised", "http": awaiting user_info, "send":
\* it calls a send operation), and the command it sends
Ran(D, next, cmd) == [dir |-> D, next |-> next, cmd |-> cmd]

\* on_join: a participant with an account awaits the profile fetch
OnJoin(f, D, arg) == Ran(D, IF Search(D.users, arg).acct THEN "http" ELSE "done", "")

\* on_nick: old_nick = user.old_nicks[-2], the previous nick it reports
OldNick(u) == u.old_nicks[Len(u.old_nicks) - 1]

\* a buggy on_quit: the payload is used without the None test
OnQuitNoGuard(f, D, arg) == Ran(D, IF arg = 0 THEN "raised" ELSE "done", "")

\* on_quit: a console line if the payload is not None
OnQuit(f, D, arg) == Ran(D, "done", "")

\* a buggy on_nick: the handler renames the participant itself
OnNickRenames(f, D, arg) == Ran([D EXCEPT !.users = ChangeNick(@, f.h, f.n)], "done", "")

\* on_nick reads user.old_nicks[-2]; on None it raises
OnNick(f, D, arg) == Ran(D, IF arg = 0 THEN "raised" ELSE "done", "")

\* on_unban, on_stream_moder_allow, on_stream_moder_close read a field of the
\* payload; on None they raise
OnPayloadField(f, D, arg) == Ran(D, IF arg = 0 THEN "raised" ELSE "done", "")

\* on_joined: the client's own entry is added and becomes users.client; a
\* moderator requests the ban list
OnJoined(f, D, arg) ==
  Ran([D EXCEPT !.users = Add(@, f), !.client = f.h], IF f.mod THEN "send" ELSE "done",
      IF f.mod THEN "banlist" ELSE "")

\* 'word' in text, for the texts of the system notices
Contains(text, word) ==
  CASE word = "banned" -> text \in {"banned", "banned, green room enabled"}
    [] word = "green room enabled" -> text \in {"green room enabled", "banned, green room enabled"}
    [] word = "green room disabled" -> text = "green room disabled"
    [] OTHER -> FALSE

\* a buggy on_sysmsg: the ban entries are cleared and requested again
\* whether the client is a moderator or not
OnSysmsgAnyClient(f, D, arg) ==
  IF Contains(f.n, "banned")
  THEN IF D.client = 0 THEN Ran(D, "raised", "")
       ELSE Ran([D EXCEPT !.banned = ClearBanlist(@)], "send", "banlist")
  ELSE Ran(D, "done", "")

\* on_sysmsg: on a 'banned' notice a moderator clears the ban entries and
\* requests the ban list; users.client.is_mod raises while users.client is None
OnSysmsg(f, D, arg) ==
  IF Contains(f.n, "banned")
  THEN IF D.client = 0 THEN Ran(D, "raised", "")
       ELSE IF Search(D.users, D.client).mod
            THEN Ran([D EXCEPT !.banned = ClearBanlist(@)], "send", "banlist")
            ELSE Ran(D, "done", "")
  ELSE Ran(D, "done", "")

\* user.messages.append(msg)
Log(U, h, m) == {IF u.handle = h THEN [u EXCEPT !.msgs = Append(@, m)] ELSE u : u \in U}

\* on_msg, on_pvtmsg: user.nick is read (None raises), the message is
\* appended to the participant's messages
OnMsg(f, D, arg) ==
  IF arg = 0 THEN Ran(D, "raised", "")
  ELSE Ran([D EXCEPT !.users = Log(@, arg, Message(f))], "done", "")

\* on_yut_play: without a participant a console line; else the message is
\* appended to the participant's messages
OnYutPlay(f, D, arg) ==
  IF arg = 0 THEN Ran(D, "done", "")
  ELSE Ran([D EXCEPT !.users = Log(@, arg, Message(f))], "done", "")

\* on_yut_pause: a console line that reads user.nick unless the message is
\* a response; nothing is appended
OnYutPause(f, D, arg) == Ran(D, IF arg = 0 /\ ~f.ok THEN "raised" ELSE "done", "")

\* user.is_broadcasting = b
SetBroadcasting(U, h, b) == {IF u.handle = h THEN [u EXCEPT !.bc = b] ELSE u : u \in U}

\* user.is_waiting = b
SetWaiting(U, h, b) == {IF u.handle = h THEN [u EXCEPT !.wait = b] ELSE u : u \in U}

\* on_publish: is_broadcasting = True, is_waiting = False; None raises
OnPublish(f, D, arg) ==
  IF arg = 0 THEN Ran(D, "raised", "")
  ELSE Ran([D EXCEPT !.users = SetWaiting(SetBroadcasting(@, arg, TRUE), arg, FALSE)], "done", "")

\* on_unpublish: is_broadcasting = False if the participant is not None
OnUnpublish(f, D, arg) ==
  IF arg = 0 THEN Ran(D, "done", "")
  ELSE Ran([D EXCEPT !.users = SetBroadcasting(@, arg, FALSE)], "done", "")

\* on_pending_moderation: is_waiting = True; None raises
OnPendingModeration(f, D, arg) ==
  IF arg = 0 THEN Ran(D, "raised", "")
  ELSE Ran([D EXCEPT !.users = SetWaiting(@, arg, TRUE)], "done", "")

\* on_password: the handler awaits console input for at most 59 s
OnPassword(f, D, arg) == Ran(D, "input", "")

\* a buggy key test: the solver is started whatever the key is
HasSolverKeyAlways == TRUE

\* on_captcha: len(self._anti_captcha_key) == 32
HasSolverKey == acak

\* on_captcha: with a key the solver is awaited, without one the
\* instructions are written and disconnect is called
OnCaptcha(f, D, arg) == Ran(D, IF HasSolverKey THEN "solver" ELSE "disconnect", "")

Handler(f, D, arg) ==
  CASE f.tc = "join"   -> OnJoin(f, D, arg)
    [] f.tc = "nick"   -> OnNick(f, D, arg)
    [] f.tc = "quit"   -> OnQuit(f, D, arg)
    [] f.tc \in {"unban", "stream_moder_allow", "stream_moder_close"} -> OnPayloadField(f, D, arg)
    [] f.tc = "joined" -> OnJoined(f, D, arg)
    [] f.tc = "sysmsg" -> OnSysmsg(f, D, arg)
    [] f.tc = "password" -> OnPassword(f, D, arg)
    [] f.tc = "captcha" -> OnCaptcha(f, D, arg)
    [] f.tc \in {"msg", "pvtmsg"} -> OnMsg(f, D, arg)
    [] f.tc = "yut_play" -> OnYutPlay(f, D, arg)
    [] f.tc = "yut_pause" -> OnYutPause(f, D, arg)
    [] f.tc = "publish" -> OnPublish(f, D, arg)
    [] f.tc = "unpublish" -> OnUnpublish(f, D, arg)
    [] f.tc = "pending_moderation" -> OnPendingModeration(f, D, arg)
    [] OTHER           -> Ran(D, "done", "")

\* RoomState.update(**settings): the attributes are merged, the green room
\* flag is not one of them
RoomUpdate(g) == g

\* a buggy on_pending_moderation: the green room flag is set from the notices only
OnGreenroomNoticesOnly(f, D, arg, g) ==
  IF f.tc = "sysmsg" /\ ~(Contains(f.n, "banned") /\ (D.client = 0 \/ Search(D.users, D.client).mod))
  THEN IF Contains(f.n, "green room enabled") THEN TRUE
       ELSE IF Contains(f.n, "green room disabled") THEN FALSE ELSE g
  ELSE g

\* RoomState's green room flag after the handler of f: on_sysmsg sets it
\* from an 'enabled' or 'disabled' notice unless the notice was taken as a
\* ban notice (or raised on users.client); on_pending_moderation sets it
\* before it touches the participant; on_room_info and on_room_settings merge
OnGreenroom(f, D, arg, g) ==
  CASE f.tc = "sysmsg" ->
         IF Contains(f.n, "banned") /\ (D.client = 0 \/ Search(D.users, D.client).mod) THEN g
         ELSE IF Contains(f.n, "green room enabled") THEN TRUE
         ELSE IF Contains(f.n, "green room disabled") THEN FALSE
         ELSE g
    [] f.tc = "pending_moderation" -> TRUE
    [] f.tc \in {"room_info", "room_settings"} -> RoomUpdate(g)
    [] OTHER -> g

\* the handler names TinychatClient defines (hasattr in dispatch)
HandlerEvents ==
  {"closed", "joined", "room_info", "room_settings", "userlist", "join", "nick", "quit",
   "ban", "unban", "banlist", "msg", "pvtmsg", "publish", "unpublish", "sysmsg",
   "password", "pending_moderation", "stream_moder_allow", "stream_moder_close",
   "captcha", "yut_playlist", "yut_play", "yut_pause", "yut_stop", "error"}

\* a buggy dispatch: a task is created for every event
RegisteredAny(tc) == TRUE

\* hasattr(self, 'on_' + event)
Registered(tc) == tc \in handlers

\* ---------------------------------------------------------------- transport
\* TinychatWebSocket.__init__: self._req = 1
InitReq == 1

\* a buggy increment
NextReqSkips(r) == r + 2

\* send_as_json: self._req += 1 after the envelope was sent
NextReq(r) == r + 1

\* a buggy reset: the counter restarts at 0
JoinResetZero(r) == 0

\* join: a counter above 1 is reset to 1
JoinReset(r) == IF r > 1 THEN 1 ELSE r

\* a buggy open test: every websocket object counts as open
IsOpenAlways(s) == TRUE

\* ws.open of websocket object s: the newest object while it is open, or an
\* older one that was never closed
IsOpen(s) == (s = conn /\ wsOpen) \/ s \in stale

\* a buggy payload: the envelope carries the value after the increment
PayloadReqAhead(s) == req[s] + 1

\* the 'req' field of a payload: self.req read when the payload is built
PayloadReq(s) == req[s]

\* an envelope written to websocket s for frame by (0: the join of connect);
\* st is "pending" while the send is suspended after the write, "ok" once
\* send_as_json has incremented the counter, "failed" if the send raised
Envelope(s, tc, by, st) == [s |-> s, tc |-> tc, req |-> PayloadReq(s), by |-> by, st |-> st]

\* run_until_complete(start()) has ended with an exception or a
\* cancellation: the event loop runs no task any more
LoopStopped == mainPc \in {"raised", "cancelled"}

Task(pc, inv, env) == [pc |-> pc, inv |-> inv, env |-> env]

NoReady == \A k \in 1..Len(tasks) : tasks[k].pc # "ready"

\* the coroutine of connect may take a step: it is still running, or it was
\* suspended and every task created before it suspended has taken its first step
MainCanRun == mainHot \/ NoReady

\* whether a frame is already buffered when the receive loop comes back to recv
HotSet(n) == IF n < MaxFrames /\ wsOpen THEN BOOLEAN ELSE {FALSE}

DirNow == Dir(users, banned, client)

\* dispatch: a task is created only if the client has a method on_<event>
Schedule(tc) == IF Registered(tc) THEN Task("ready", 0, 0) ELSE Task("none", 0, 0)

\* TinychatClient.__init__ with or without a 32 character 'acak' option, for
\* a client object that has the handler attributes hs
Constructed(key, hs) ==
  /\ mainPc = "idle" /\ mainHot = FALSE
  /\ conn = 0 /\ ws = 0 /\ wsOpen = FALSE
  /\ req = <<>> /\ sent = <<>> /\ frames = <<>> /\ tasks = <<>>
  /\ users = {} /\ banned = {} /\ client = 0
  /\ atStart = [k |-> 0, dir |-> Dir({}, {}, 0), arg |-> 0, list |-> <<>>, msg |-> NoMessage, argc |-> 0]
  /\ attempts = <<>> /\ discs = <<>>
  /\ acak = key
  /\ sub = [k \in 1..MaxFrames |-> [got |-> "", polls |-> 0]]
  /\ handlers = hs /\ web = <<>> /\ greenroom = FALSE /\ stale = {}

\* TinychatClient as the class defines it: every handler of HandlerEvents
Construct(key) == Constructed(key, HandlerEvents)

\* the client as constructed by default: options.get('acak', '')
Init == Construct(FALSE)

\* the handler attributes a client object may lack: none, one of the events
\* that change the Directory, or all of them
Lacking == {{}, MutatingEvents} \cup {{e} : e \in MutatingEvents}

\* a client object that lacks some of the handler attributes
InitH == \E X \in Lacking : Constructed(FALSE, HandlerEvents \ X)

\* the client constructed with or without a solver key
InitS == \E key \in BOOLEAN : Construct(key)

\* what web.get gives connect_details: a body with both fields, a body that
\* lacks one, or no response
GatewayResponses == {"ok", "nofield", "none"}

\* what waiting 60 s for websockets.connect gives
OpenResults == {"ok", "timeout"}

\* the exceptions that leave TinychatWebSocket.connect
Exceptions == {"KeyError", "TypeError", "AttributeError", "ConnectionClosed"}

\* a buggy connect_details: any answer is taken as a dict with both fields
ConnectDetailsAnyAnswer(resp) == "dict"

\* api.connect_details: None without a response, a KeyError on a missing
\* field, else the dict {token, endpoint}
ConnectDetails(resp) ==
  CASE resp = "none"    -> "None"
    [] resp = "nofield" -> "KeyError"
    [] OTHER            -> "dict"

\* a buggy connect: the join is sent although the open timed out
ConnectPathTimeoutIgnored(resp, opened) ==
  IF ConnectDetails(resp) = "KeyError" THEN "KeyError"
  ELSE IF ConnectDetails(resp) = "None" THEN "TypeError"
  ELSE "join"

\* TinychatWebSocket.connect up to ws.join: the KeyError of connect_details
\* leaves connect; len(None) raises TypeError; after a timeout ws is still
\* None and ws.join raises AttributeError; else the join is sent
ConnectPath(resp, opened) ==
  IF ConnectDetails(resp) = "KeyError" THEN "KeyError"
  ELSE IF ConnectDetails(resp) = "None" THEN "TypeError"
  ELSE IF opened = "timeout" THEN "AttributeError"
  ELSE "join"

\* a call of TinychatClient.connect: gw and open are what the gateway fetch and
\* the socket open gave ("na": not tried), s the websocket object made (0:
\* none), end how the call ended ("": still running)
Attempt(gw, open, s, end) == [gw |-> gw, open |-> open, s |-> s, end |-> end]

\* a buggy end of connect: a new attempt is started right away
EndAttemptRetries(e) ==
  Append([attempts EXCEPT ![Len(attempts)].end = e], Attempt("ok", "ok", 0, ""))

\* the running call of connect ends
EndAttempt(e) == [attempts EXCEPT ![Len(attempts)].end = e]

\* TinychatWebSocket.connect up to the await of rtc_version in join: the
\* gateway answered, the socket was opened, a new websocket object exists
Connect(limit) ==
  /\ mainPc = "idle" /\ NoReady /\ conn < limit
  /\ \E resp \in GatewayResponses, opened \in OpenResults :
       /\ ConnectPath(resp, opened) = "join"
       /\ attempts' = Append(attempts, Attempt(resp, opened, conn + 1, ""))
  /\ conn' = conn + 1 /\ wsOpen' = TRUE
  /\ req' = Append(req, JoinReset(InitReq))
  /\ mainPc' = "rtc" /\ mainHot' = FALSE
  /\ UNCHANGED <<ws, sent, frames, tasks, users, banned, client, atStart, discs, acak, sub, handlers, web, greenroom, stale>>

\* TinychatWebSocket.connect: connect_details returned None (len(None)
\* raises) or raised on a missing field, or the socket did not open within
\* 60 s (ws stays None and ws.join raises): the exception leaves connect
ConnectFail(limit) ==
  /\ mainPc = "idle" /\ NoReady /\ conn < limit
  /\ \E resp \in GatewayResponses, opened \in OpenResults :
       /\ ConnectPath(resp, opened) # "join"
       /\ attempts' = Append(attempts,
            Attempt(resp, IF ConnectDetails(resp) = "dict" THEN opened ELSE "na", 0,
                    ConnectPath(resp, opened)))
  /\ mainPc' = "raised"
  /\ UNCHANGED <<mainHot, conn, ws, wsOpen, req, sent, frames, tasks, users, banned, client, atStart, discs, acak, sub, handlers, web, greenroom, stale>>

\* the end of TinychatWebSocket.connect and the start of the receive loop:
\* ensure_open logs a closed socket, client.ws is assigned, the loop is
\* entered only if the socket is open
AfterJoin ==
  /\ ws' = conn
  /\ IF IsOpen(conn)
     THEN mainPc' = "loop" /\ mainHot' \in HotSet(Len(frames)) /\ attempts' = EndAttempt("loop")
     ELSE mainPc' = "idle" /\ mainHot' = FALSE /\ attempts' = EndAttempt("handshake")

\* join: the payload is built and sent; the send returns at once or suspends
JoinSend ==
  /\ mainPc = "rtc" /\ NoReady
  /\ IF ~wsOpen
     THEN /\ mainPc' = "raised" /\ attempts' = EndAttempt("ConnectionClosed")
          /\ UNCHANGED <<mainHot, ws, req, sent>>
     ELSE \/ /\ sent' = Append(sent, Envelope(conn, "join", 0, "ok"))
             /\ req' = [req EXCEPT ![conn] = NextReq(@)]
             /\ AfterJoin
          \/ /\ sent' = Append(sent, Envelope(conn, "join", 0, "pending"))
             /\ mainPc' = "joinsend"
             /\ UNCHANGED <<mainHot, ws, req, attempts>>
  /\ UNCHANGED <<conn, wsOpen, frames, tasks, users, banned, client, atStart, discs, acak, sub, handlers, web, greenroom, stale>>

\* index of the envelope of the suspended send of connect's coroutine
MainEnv == CHOOSE i \in 1..Len(sent) : sent[i].by = 0 /\ sent[i].st = "pending" /\ sent[i].s = conn

\* the suspended send of the join envelope is resumed
JoinResume ==
  /\ mainPc = "joinsend" /\ NoReady
  /\ \/ /\ sent' = [sent EXCEPT ![MainEnv].st = "ok"]
        /\ req' = [req EXCEPT ![conn] = NextReq(@)]
        /\ AfterJoin
     \/ /\ ~wsOpen
        /\ sent' = [sent EXCEPT ![MainEnv].st = "failed"]
        /\ mainPc' = "raised" /\ attempts' = EndAttempt("ConnectionClosed")
        /\ UNCHANGED <<mainHot, ws, req>>
  /\ UNCHANGED <<conn, wsOpen, frames, tasks, users, banned, client, atStart, discs, acak, sub, handlers, web, greenroom, stale>>

\* the connection is closed by the peer or lost; this is seen by the
\* library's own task, which runs only while connect's coroutine is suspended
ConnLost ==
  /\ wsOpen /\ ~mainHot /\ mainPc \in {"rtc", "joinsend", "loop", "pong"}
  /\ wsOpen' = FALSE
  /\ UNCHANGED <<mainPc, mainHot, conn, ws, req, sent, frames, tasks, users, banned, client, atStart,
                 attempts, discs, acak, sub, handlers, web, greenroom, stale>>

\* connect called from another coroutine while the receive loop of the call
\* before it is suspended in recv on an open socket: connect does not look at
\* self.ws, a new websocket object is made and the one before it is left
\* open; the loop of the earlier call stays suspended for as long as its
\* socket delivers nothing
ConnectAgain(limit) ==
  /\ mainPc = "loop" /\ wsOpen /\ ~mainHot /\ NoReady /\ conn < limit
  /\ ConnectPath("ok", "ok") = "join"
  /\ attempts' = Append(attempts, Attempt("ok", "ok", conn + 1, ""))
  /\ stale' = stale \cup {conn}
  /\ conn' = conn + 1 /\ wsOpen' = TRUE
  /\ req' = Append(req, JoinReset(InitReq))
  /\ mainPc' = "rtc"
  /\ UNCHANGED <<mainHot, ws, sent, frames, tasks, users, banned, client, atStart, discs, acak, sub,
                 handlers, web, greenroom>>

\* a websocket object that is no longer the newest is closed by the peer
StaleLost ==
  /\ ~mainHot /\ stale # {}
  /\ \E s \in stale : stale' = stale \ {s}
  /\ UNCHANGED <<mainPc, mainHot, conn, ws, wsOpen, req, sent, frames, tasks, users, banned, client, atStart,
                 attempts, discs, acak, sub, handlers, web, greenroom>>

\* a buggy recv: a frame is returned on a closed connection too
RecvAlways == TRUE

\* recv returns a frame only while the connection is open; on a closed
\* connection it raises ConnectionClosed
RecvReturns == wsOpen

\* poll_event: recv returns frame f and dispatch_message routes it: a ping is
\* answered by _pong, any other frame goes to dispatch
Recv(f) ==
  /\ mainPc = "loop" /\ RecvReturns /\ MainCanRun /\ Len(frames) < MaxFrames
  /\ frames' = Append(frames, f)
  /\ IF f.tc = "ping"
     THEN /\ tasks' = Append(tasks, Task("none", 0, 0))
          /\ \/ /\ sent' = Append(sent, Envelope(ws, "pong", Len(frames) + 1, "ok"))
                /\ req' = [req EXCEPT ![ws] = NextReq(@)]
                /\ mainPc' = "loop" /\ mainHot' \in HotSet(Len(frames) + 1)
             \/ /\ sent' = Append(sent, Envelope(ws, "pong", Len(frames) + 1, "pending"))
                /\ mainPc' = "pong" /\ mainHot' = FALSE
                /\ UNCHANGED req
     ELSE /\ tasks' = Append(tasks, Schedule(f.tc))
          /\ mainHot' \in HotSet(Len(frames) + 1)
          /\ UNCHANGED <<mainPc, req, sent>>
  /\ UNCHANGED <<conn, ws, wsOpen, users, banned, client, atStart, attempts, discs, acak, sub, handlers, web, greenroom, stale>>

\* index of the envelope of the suspended pong
PongEnv == CHOOSE i \in 1..Len(sent) : sent[i].tc = "pong" /\ sent[i].st = "pending"

\* the suspended send of a pong is resumed; a failure is caught by poll_event
PongResume ==
  /\ mainPc = "pong" /\ NoReady
  /\ \/ /\ sent' = [sent EXCEPT ![PongEnv].st = "ok"]
        /\ req' = [req EXCEPT ![sent[PongEnv].s] = NextReq(@)]
     \/ /\ ~wsOpen
        /\ sent' = [sent EXCEPT ![PongEnv].st = "failed"]
        /\ UNCHANGED req
  /\ mainPc' = "loop" /\ mainHot' \in HotSet(Len(frames))
  /\ UNCHANGED <<conn, ws, wsOpen, frames, tasks, users, banned, client, atStart, attempts, discs, acak, sub, handlers, web, greenroom, stale>>

\* recv raises ConnectionClosed, poll_event logs it, the loop ends and
\* connect returns
LoopExit ==
  /\ mainPc = "loop" /\ ~wsOpen /\ ~mainHot /\ NoReady
  /\ mainPc' = "idle" /\ attempts' = EndAttempt("closed")
  /\ UNCHANGED <<mainHot, conn, ws, wsOpen, req, sent, frames, tasks, users, banned, client, atStart, discs, acak, sub, handlers, web, greenroom, stale>>

\* a scheduler that starts ready tasks in any order
AnyReady(k) == TRUE

\* asyncio.create_task queues the task's first step behind the steps queued
\* before it: ready tasks start in creation order
FirstReady(k) == \A j \in 1..(k - 1) : tasks[j].pc # "ready"

\* a buggy send: the command goes to the newest websocket object
SendSocketNewest == conn

\* the send_* methods of TinychatClient call self.ws: the websocket object
\* the last completed TinychatWebSocket.connect returned
SendSocket == ws

\* a send operation called by the task of frames[k]: on a socket that is not
\* open the send raises; else the envelope is written and the send returns
\* at once or suspends
SendBy(k, inv, cmd) ==
  IF ~IsOpen(SendSocket)
  THEN /\ tasks' = [tasks EXCEPT ![k] = Task("raised", inv, 0)]
       /\ UNCHANGED <<req, sent>>
  ELSE \/ /\ sent' = Append(sent, Envelope(SendSocket, cmd, k, "ok"))
          /\ req' = [req EXCEPT ![SendSocket] = NextReq(@)]
          /\ tasks' = [tasks EXCEPT ![k] = Task("done", inv, 0)]
       \/ /\ sent' = Append(sent, Envelope(SendSocket, cmd, k, "pending"))
          /\ tasks' = [tasks EXCEPT ![k] = Task("send", inv, Len(sent) + 1)]
          /\ UNCHANGED req

\* a buggy disconnect: the close is sent whenever the client holds a websocket object
ShouldCloseAlways == ws # 0

\* disconnect: self.ws is not None and self.ws.open
ShouldClose == ws # 0 /\ IsOpen(ws)

\* ws.close(1001): the websocket object the client holds leaves the open state
ClosedNewest == IF ShouldClose /\ ws = conn THEN FALSE ELSE wsOpen
ClosedStale == IF ShouldClose THEN stale \ {ws} ELSE stale

\* the record of a call of disconnect by task k
Disc(clean_up, k) ==
  [s |-> ws, open |-> (ws # 0 /\ IsOpen(ws)), close |-> ShouldClose, cu |-> clean_up, by |-> k]

\* the positions of a task that has not finished
Outstanding == {"ready", "http", "send", "input", "solver"}

\* the task _clean_up cancels before run_until_complete raises inside the
\* running loop: the first of the set all_tasks, which has no order: another
\* outstanding handler task, the task of connect (-1), or a task that is no
\* other handler (0: the caller itself, the task of close_session, or none
\* where Task.all_tasks does not exist)
CancelTargets(k) ==
  {0} \cup (IF mainPc = "idle" THEN {} ELSE {-1})
      \cup {j \in 1..Len(tasks) : j # k /\ tasks[j].pc \in Outstanding}

\* task.cancel() of target c: the task ends at the await it is suspended in
Cancel(k, c) ==
  [j \in 1..Len(tasks) |->
     IF j = c THEN Task("cancelled", tasks[j].inv, tasks[j].env) ELSE tasks[j]]

\* disconnect() called by the handler of frames[k]: an open socket is closed
\* with code 1001; _clean_up cancels one task, then run_until_complete raises
\* RuntimeError in the running loop and the caller ends with it
TeardownBy(k, inv) ==
  /\ discs' = Append(discs, Disc(TRUE, k))
  /\ wsOpen' = ClosedNewest /\ stale' = ClosedStale
  /\ \E c \in CancelTargets(k) :
       /\ tasks' = [Cancel(k, c) EXCEPT ![k] = Task("raised", inv, 0)]
       /\ mainPc' = IF c = -1 THEN "cancelled" ELSE mainPc

\* the first step of the task of frames[k]: _process_event normalizes the
\* frame, run_method calls the handler, the handler runs to its first suspension
TaskStart(k) ==
  /\ ~mainHot /\ ~LoopStopped
  /\ k \in 1..Len(tasks) /\ tasks[k].pc = "ready"
  /\ FirstReady(k)
  /\ LET f == frames[k]
         n == Process(f, DirNow)
         h == IF n.run THEN Handler(f, n.dir, n.arg) ELSE Ran(n.dir, IF n.err THEN "raised" ELSE "dropped", "")
         inv == IF n.run THEN 1 ELSE 0
     IN /\ users' = h.dir.users /\ banned' = h.dir.banned /\ client' = h.dir.client
        /\ atStart' = IF n.run THEN [k |-> k, dir |-> n.dir, arg |-> n.arg, list |-> n.list,
                                       msg |-> n.msg, argc |-> n.argc]
                              ELSE atStart
        /\ greenroom' = IF n.run THEN OnGreenroom(f, n.dir, n.arg, greenroom) ELSE greenroom
        /\ IF h.next = "send"
           THEN SendBy(k, inv, h.cmd) /\ UNCHANGED <<mainPc, wsOpen, discs, stale>>
           ELSE IF h.next = "disconnect"
           THEN TeardownBy(k, inv) /\ UNCHANGED <<req, sent>>
           ELSE /\ tasks' = [tasks EXCEPT ![k] = Task(h.next, inv, 0)]
                /\ UNCHANGED <<req, sent, mainPc, wsOpen, discs, stale>>
  /\ UNCHANGED <<mainHot, conn, ws, frames, attempts, acak, sub, handlers, web>>

\* what the await of console.input within 59 s gives
PromptResults == {"input", "timeout"}

\* a buggy on_password: the password command is sent after a timeout too
OnPasswordResultSendsAnyway(r) == "send"

\* on_password after the prompt: a timeout calls disconnect, an input is
\* sent as the password command
OnPasswordResult(r) == IF r = "timeout" THEN "disconnect" ELSE "send"

\* on_password resumed: wait_for returned the input or raised TimeoutError
TaskInput(k, r) ==
  /\ ~mainHot /\ ~LoopStopped
  /\ k \in 1..Len(tasks) /\ tasks[k].pc = "input"
  /\ sub' = [sub EXCEPT ![k].got = r]
  /\ IF OnPasswordResult(r) = "send"
     THEN SendBy(k, 1, "password") /\ UNCHANGED <<mainPc, wsOpen, discs, stale>>
     ELSE TeardownBy(k, 1) /\ UNCHANGED <<req, sent>>
  /\ UNCHANGED <<mainHot, conn, ws, frames, users, banned, client, atStart, attempts, acak, handlers, web, greenroom>>

\* what the provider answers a solver: a result that is not ready yet, a
\* token, a token of at most 20 characters, a zero balance, or an error id
SolverResults == {"processing", "token", "short", "nofunds", "apierror"}

\* AntiCaptcha.solver, _create_task, _task_waiter: a result that is not ready
\* is asked for again, without a limit; a ready one returns the token; a zero
\* balance raises NoFundsError, an error id AntiCaptchaError; without a
\* response the solver returns None
SolverOutcome(r) ==
  CASE r = "processing" -> "again"
    [] r \in {"token", "short"} -> "return"
    [] r = "nofunds" -> "NoFundsError"
    [] r = "apierror" -> "AntiCaptchaError"
    [] OTHER -> "None"

\* a buggy on_captcha: the token is not sent
OnCaptchaResultNoSend(r) == IF SolverOutcome(r) = "again" THEN "solver" ELSE "done"

\* on_captcha after the solver: a token longer than 20 characters is sent, a
\* shorter one is dropped; len(None) raises; for any exception the except
\* clause names captcha.MaxTriesError, which captcha.py does not define, so
\* the handler ends with AttributeError before disconnect is reached
OnCaptchaResult(r) ==
  CASE SolverOutcome(r) = "again" -> "solver"
    [] SolverOutcome(r) = "return" -> IF r = "token" THEN "send" ELSE "done"
    [] OTHER -> "raised"

\* on_captcha resumed by an answer of the provider
TaskSolver(k, r) ==
  /\ ~mainHot /\ ~LoopStopped
  /\ k \in 1..Len(tasks) /\ tasks[k].pc = "solver"
  /\ r = "processing" => sub[k].polls < MaxPolls
  /\ sub' = [sub EXCEPT ![k] = IF r = "processing" THEN [@ EXCEPT !.polls = @ + 1]
                                                   ELSE [@ EXCEPT !.got = r]]
  /\ IF OnCaptchaResult(r) = "send"
     THEN SendBy(k, 1, "captcha") /\ UNCHANGED <<mainPc, wsOpen, discs, stale>>
     ELSE IF OnCaptchaResult(r) = "disconnect"
     THEN TeardownBy(k, 1) /\ UNCHANGED <<req, sent>>
     ELSE /\ tasks' = [tasks EXCEPT ![k] = Task(OnCaptchaResult(r), 1, 0)]
          /\ UNCHANGED <<req, sent, mainPc, wsOpen, discs, stale>>
  /\ UNCHANGED <<mainHot, conn, ws, frames, users, banned, client, atStart, attempts, acak, handlers, web, greenroom>>

\* a handler suspended in a send is resumed: send_as_json increments the
\* counter of the websocket object the envelope was written to; on a lost
\* connection the send may raise instead
TaskResumeSend(k) ==
  /\ ~mainHot /\ ~LoopStopped
  /\ k \in 1..Len(tasks) /\ tasks[k].pc = "send"
  /\ LET e == tasks[k].env
     IN \/ /\ sent' = [sent EXCEPT ![e].st = "ok"]
           /\ req' = [req EXCEPT ![sent[e].s] = NextReq(@)]
           /\ tasks' = [tasks EXCEPT ![k] = Task("done", @.inv, 0)]
        \/ /\ ~IsOpen(sent[e].s)
           /\ sent' = [sent EXCEPT ![e].st = "failed"]
           /\ tasks' = [tasks EXCEPT ![k] = Task("raised", @.inv, 0)]
           /\ UNCHANGED req
  /\ UNCHANGED <<mainPc, mainHot, conn, ws, wsOpen, frames, users, banned, client, atStart,
                 attempts, discs, acak, sub, handlers, web, greenroom, stale>>

\* on_join resumed after the profile fetch: add_tc_info and a console line
TaskResumeHttp(k) ==
  /\ ~mainHot /\ ~LoopStopped
  /\ k \in 1..Len(tasks) /\ tasks[k].pc = "http"
  /\ tasks' = [tasks EXCEPT ![k] = Task("done", @.inv, 0)]
  /\ UNCHANGED <<mainPc, mainHot, conn, ws, wsOpen, req, sent, frames, users, banned, client, atStart,
                 attempts, discs, acak, sub, handlers, web, greenroom, stale>>

\* a call of disconnect(clean_up=False) from another coroutine: an open socket
\* is closed with code 1001, which ends its open state; else nothing is sent
Disconnect(clean_up) ==
  /\ ~mainHot /\ ~LoopStopped /\ Len(discs) < MaxDisconnects
  /\ discs' = Append(discs, Disc(clean_up, 0))
  /\ wsOpen' = ClosedNewest /\ stale' = ClosedStale
  /\ UNCHANGED <<mainPc, mainHot, conn, ws, req, sent, frames, tasks, users, banned, client, atStart, attempts,
                 acak, sub, handlers, web, greenroom>>

\* the frames of the connection runs
FramesC == {Ping, Closed}

\* the transport runs: reconnects, pings, handlers that send
Next ==
  \/ Connect(MaxSessions)
  \/ ConnectFail(MaxSessions)
  \/ JoinSend
  \/ JoinResume
  \/ ConnLost
  \/ \E f \in FramesT : Recv(f)
  \/ PongResume
  \/ LoopExit
  \/ \E k \in 1..MaxFrames : TaskStart(k)
  \/ \E k \in 1..MaxFrames : TaskResumeSend(k)

Spec == Init /\ [][Next]_vars

\* the directory runs: one connection that stays up, the events that change
\* the Directory, handlers that suspend on the profile fetch
NextD ==
  \/ Connect(1)
  \/ JoinSend
  \/ JoinResume
  \/ \E f \in FramesD : Recv(f)
  \/ \E k \in 1..MaxFrames : TaskStart(k)
  \/ \E k \in 1..MaxFrames : TaskResumeHttp(k)

SpecD == Init /\ [][NextD]_vars

\* the captcha runs: one connection, captcha requests with or without a
\* solver key, solvers that answer or fail, captcha commands sent
NextS ==
  \/ Connect(1)
  \/ JoinSend
  \/ JoinResume
  \/ \E f \in FramesS : Recv(f)
  \/ \E k \in 1..MaxFrames : TaskStart(k)
  \/ \E k \in 1..MaxFrames : TaskResumeSend(k)
  \/ \E k \in 1..MaxFrames, r \in SolverResults : TaskSolver(k, r)

SpecS == InitS /\ [][NextS]_vars

\* the password runs: one connection that may be lost, password requests,
\* prompts that are answered or time out, events without a normalizer branch
\* or without a handler
NextP ==
  \/ Connect(1)
  \/ JoinSend
  \/ JoinResume
  \/ ConnLost
  \/ \E f \in FramesP : Recv(f)
  \/ \E k \in 1..MaxFrames : TaskStart(k)
  \/ \E k \in 1..MaxFrames : TaskResumeSend(k)
  \/ \E k \in 1..MaxFrames, r \in PromptResults : TaskInput(k, r)

SpecP == Init /\ [][NextP]_vars

\* the connection runs: connects that fail or succeed, pings, lost
\* connections, disconnects that keep the event loop (clean_up=False)
NextC ==
  \/ Connect(MaxSessions)
  \/ ConnectFail(MaxSessions)
  \/ JoinSend
  \/ JoinResume
  \/ ConnLost
  \/ \E f \in FramesC : Recv(f)
  \/ PongResume
  \/ LoopExit
  \/ \E k \in 1..MaxFrames : TaskStart(k)
  \/ Disconnect(FALSE)

SpecC == Init /\ [][NextC]_vars

\* the runs of clients that lack handlers: one connection that stays up and
\* the events that change the Directory
NextH ==
  \/ Connect(1)
  \/ JoinSend
  \/ JoinResume
  \/ \E f \in FramesH : Recv(f)
  \/ \E k \in 1..MaxFrames : TaskStart(k)

SpecH == InitH /\ [][NextH]_vars

\* the handshake runs: connections that are lost and made again while
\* handlers of the connection before are still waiting to send; every
\* password prompt is answered
NextJ ==
  \/ Connect(MaxSessions)
  \/ JoinSend
  \/ JoinResume
  \/ ConnLost
  \/ \E f \in FramesJ : Recv(f)
  \/ LoopExit
  \/ \E k \in 1..MaxFrames : TaskStart(k)
  \/ \E k \in 1..MaxFrames : TaskResumeSend(k)
  \/ \E k \in 1..MaxFrames : TaskInput(k, "input")

SpecJ == Init /\ [][NextJ]_vars

\* the room runs: one connection that stays up, system notices, broadcasting
\* events and room settings, with the client a moderator or not
NextG ==
  \/ Connect(1)
  \/ JoinSend
  \/ JoinResume
  \/ \E f \in FramesG : Recv(f)
  \/ \E k \in 1..MaxFrames : TaskStart(k)
  \/ \E k \in 1..MaxFrames : TaskResumeSend(k)

SpecG == Init /\ [][NextG]_vars

\* the message runs: one connection that stays up, text and media events of
\* participants that are or are not in the Directory
NextM ==
  \/ Connect(1)
  \/ JoinSend
  \/ JoinResume
  \/ \E f \in FramesM : Recv(f)
  \/ \E k \in 1..MaxFrames : TaskStart(k)

SpecM == Init /\ [][NextM]_vars

\* the runs with overlapping calls of connect: connect is called again while
\* a connection is open, with pings, lost connections and disconnects
NextR ==
  \/ Connect(MaxSessions)
  \/ ConnectAgain(MaxSessions)
  \/ JoinSend
  \/ JoinResume
  \/ ConnLost
  \/ StaleLost
  \/ \E f \in FramesC : Recv(f)
  \/ PongResume
  \/ LoopExit
  \/ \E k \in 1..MaxFrames : TaskStart(k)
  \/ Disconnect(FALSE)

SpecR == Init /\ [][NextR]_vars

\* --------------------------------------------------------------- web helper
\* the request methods web.request documents
Methods == {"DELETE", "GET", "HEAD", "OPTIONS", "PATCH", "POST", "PUT"}

\* what the await of session.request gives: a response, or it raises an
\* aiohttp.ClientError, asyncio.TimeoutError, asyncio.CancelledError (the
\* calling task was cancelled) or RuntimeError (the session is closed)
SessionOutcomes == {"response", "ClientError", "TimeoutError", "CancelledError", "RuntimeError"}

\* the try block: response is assigned only if session.request returns
TryRequest(o) ==
  IF o = "response" THEN [response |-> "response", error |-> "", raised |-> ""]
  ELSE [response |-> "None", error |-> "", raised |-> o]

\* the except clause names aiohttp.client_exceptions, a module: matching an
\* exception against it raises TypeError, which replaces the exception in
\* flight; error is not assigned
ExceptClause(t) == IF t.raised = "" THEN t ELSE [t EXCEPT !.raised = "TypeError"]

\* a buggy finally block: the return stands after it, and is not reached
\* while an exception is in flight
FinallyFallsThrough(t) == t

\* the finally block ends in return response: the exception in flight is
\* discarded and the call returns
FinallyReturns(t) == [t EXCEPT !.raised = ""]

\* web.request: what the caller gets (ret, or the exception raised), and
\* whether log.error was called
Request(m, o) ==
  LET t == ExceptClause(TryRequest(o))
      r == FinallyReturns(t)
  IN [method |-> m, outcome |-> o, ret |-> IF r.raised = "" THEN r.response ELSE "",
      raised |-> r.raised, logged |-> (t.error # "")]

\* one call of web.request
WebRequest(m, o) ==
  /\ Len(web) < MaxRequests
  /\ web' = Append(web, Request(m, o))
  /\ UNCHANGED <<mainPc, mainHot, conn, ws, wsOpen, req, sent, frames, tasks, users, banned, client, atStart, attempts, discs, acak, sub, handlers, greenroom, stale>>

\* the runs of the web helper
NextW == \E m \in Methods : \E o \in SessionOutcomes : WebRequest(m, o)

SpecW == Init /\ [][NextW]_vars

\* ------------------------------------------------------- derived quantities
\* number of envelopes on websocket s whose send completed
OkCount(q, s) == Cardinality({i \in 1..Len(q) : q[i].s = s /\ q[i].st = "ok"})

\* the same, not counting pongs
OkNonPong(q, s) == Cardinality({i \in 1..Len(q) : q[i].s = s /\ q[i].st = "ok" /\ q[i].tc # "pong"})

\* the send of the join envelope of websocket s has completed
JoinOk(q, s) == \E i \in 1..Len(q) : q[i].s = s /\ q[i].tc = "join" /\ q[i].st = "ok"

\* the frame received in this step, if one is
Received == Len(frames') = Len(frames) + 1
NewFrame == frames'[Len(frames')]

\* the task of frames[k] takes its first step in this step
Starts(k) ==
  k \in 1..Len(tasks) /\ tasks[k].pc = "ready" /\ tasks'[k].pc \notin {"ready", "cancelled"}

\* the whole synchronous effect of one frame on the Directory: normalization,
\* then the handler body up to its first suspension
Full(f, D) ==
  IF f.tc = "ping" \/ ~Registered(f.tc) THEN D
  ELSE LET n == Process(f, D) IN IF n.run THEN Handler(f, n.dir, n.arg).dir ELSE n.dir

RECURSIVE Replay(_)
\* the Directory after the frames 1..j, taken one after the other
Replay(j) == IF j = 0 THEN Dir({}, {}, 0) ELSE Full(frames[j], Replay(j - 1))

\* frames whose normalization changes the Directory
Mutating(f) == f.tc \in {"join", "nick", "quit", "userlist", "banlist"} \/ (f.tc \in {"ban", "unban"} /\ f.ok)

\* what the Directory D must show once the mutation of frame f is applied
Post(f, D) ==
  CASE f.tc = "join"     -> \E u \in D.users : u.handle = f.h /\ u.nick = f.n
    [] f.tc = "nick"     -> \A u \in D.users : u.handle = f.h => u.nick = f.n /\ u.old_nicks[Len(u.old_nicks)] = f.n
    [] f.tc = "quit"     -> ~ \E u \in D.users : u.handle = f.h
    [] f.tc = "userlist" -> \A i \in 1..Len(f.items) : \E u \in D.users : u.handle = f.items[i].h /\ u.nick = f.items[i].n
    [] f.tc = "banlist"  -> \A i \in 1..Len(f.items) : \E b \in D.banned : b.h = f.items[i].h
    [] f.tc = "ban"      -> \E b \in D.banned : b.h = f.h
    [] f.tc = "unban"    -> ~ \E b \in D.banned : b.h = f.h
    [] OTHER             -> TRUE

\* ------------------------------------------------------------------ claims

\* password and captcha envelopes written, and disconnects called, by the
\* handler of frames[k]
SentBy(k, cmd) == Cardinality({i \in 1..Len(sent) : sent[i].by = k /\ sent[i].tc = cmd})
DiscsBy(k) == Cardinality({d \in 1..Len(discs) : discs[d].by = k /\ discs[d].cu})

\* frames[k] is of type tc and the await of its handler has returned
Resumed(k, tc) == k \in 1..Len(frames) /\ frames[k].tc = tc /\ sub[k].got # ""

\* C1: the counter of a websocket object is 1 when the object is created;
\* every envelope whose send completes (join, command, pong) raises it by
\* exactly 1 and nothing else changes it; receiving and dispatching a frame
\* other than a ping leaves it unchanged.
C1_CounterStep ==
  [][ /\ \A s \in 1..Len(req') : s > Len(req) => req'[s] = 1
      /\ \A s \in 1..Len(req) : req'[s] - req[s] = OkCount(sent', s) - OkCount(sent, s)
      /\ (Received /\ NewFrame.tc # "ping") => req' = req ]_vars

C1_Witness ==
  \E s \in 1..Len(req) :
    /\ req[s] = 4
    /\ \E i, j, l \in 1..Len(sent) :
         /\ sent[i].s = s /\ sent[i].tc = "join" /\ sent[i].st = "ok"
         /\ sent[j].s = s /\ sent[j].tc = "pong" /\ sent[j].st = "ok"
         /\ sent[l].s = s /\ sent[l].tc = "banlist" /\ sent[l].st = "ok"

\* C2 as stated: the counter equals N+1, N the number of envelopes sent since
\* the join, the join included and pongs not counted.
C2_Original == \A s \in 1..Len(req) : req[s] = OkNonPong(sent, s) + 1

\* C2 amended: the counter equals N+1, N the number of envelopes whose send
\* has completed since the join, the join and the pongs included.
C2_Amended == \A s \in 1..Len(req) : req[s] = OkCount(sent, s) + 1

C2_Witness ==
  \E s \in 1..Len(req) : req[s] = 3 /\ OkNonPong(sent, s) = 1 /\ OkCount(sent, s) = 2

\* C3: the sequence values of the envelopes written to one socket are
\* strictly increasing in write order.
C3_StrictlyIncreasing ==
  \A i, j \in 1..Len(sent) : (i < j /\ sent[i].s = sent[j].s) => sent[i].req < sent[j].req

\* C4 as stated: the mutation of a frame is applied before the receive loop
\* receives the next frame.
C4_Original ==
  \A k \in 1..(Len(frames) - 1) : Mutating(frames[k]) => tasks[k].pc # "ready"

\* C4 amended: the mutation of a frame is applied by the task scheduled for
\* that frame, before the handler body starts; a frame received after the
\* receive loop had suspended finds no mutation outstanding.
C4_Amended ==
  /\ [](atStart.k > 0 /\ Mutating(frames[atStart.k]) =>
          tasks[atStart.k].inv = 1 /\ Post(frames[atStart.k], atStart.dir))
  /\ [][(Received /\ ~mainHot) => NoReady]_vars

C4_Witness ==
  /\ atStart.k > 0 /\ atStart.k < Len(frames)
  /\ frames[atStart.k].tc = "join"
  /\ tasks[atStart.k + 1].pc = "ready" /\ Mutating(frames[atStart.k + 1])

\* C5: the Directory mutations are applied frame by frame in arrival order:
\* the frames whose task has run are a prefix of the received frames and the
\* Directory is what these frames give when applied one after the other.
C5_ArrivalOrder ==
  LET S == {k \in 1..Len(tasks) : tasks[k].pc # "ready"}
  IN /\ \A k \in S : \A j \in 1..k : j \in S
     /\ DirNow = Replay(Cardinality(S))

C5_Witness ==
  /\ Len(frames) = 3
  /\ tasks[1].pc = "http" /\ tasks[2].pc = "done" /\ tasks[3].pc = "ready"
  /\ Mutating(frames[2]) /\ Mutating(frames[3])

\* C6: when a handler body starts, the Directory is the one given by all the
\* frames received up to and including the frame of that handler.
C6_HandlerView ==
  atStart.k > 0 => atStart.dir = Process(frames[atStart.k], Replay(atStart.k - 1)).dir

C6_Witness ==
  /\ atStart.k = 3
  /\ tasks[1].pc = "http" /\ frames[2].tc = "joined"
  /\ frames[3].tc = "userlist" /\ Cardinality(atStart.dir.users) = 2

\* C7: a ping is answered by exactly one pong carrying the current sequence
\* value; no task is scheduled for it, the normalizer and the Directory are
\* not touched, and the counter changes by the pong's own send only.
C7_Ping ==
  [][ /\ (Received /\ NewFrame.tc = "ping") =>
           /\ Len(sent') = Len(sent) + 1
           /\ sent'[Len(sent')].tc = "pong" /\ sent'[Len(sent')].s = ws
           /\ sent'[Len(sent')].req = req[ws]
           /\ tasks'[Len(tasks')].pc = "none" /\ tasks'[Len(tasks')].inv = 0
           /\ <<users, banned, client, atStart>>' = <<users, banned, client, atStart>>
           /\ req' = [req EXCEPT ![ws] = IF sent'[Len(sent')].st = "ok" THEN @ + 1 ELSE @]
      /\ \A k \in 1..Len(frames) : frames[k].tc = "ping" =>
           /\ tasks'[k] = tasks[k]
           /\ {i \in 1..Len(sent') : sent'[i].by = k} = {i \in 1..Len(sent) : sent[i].by = k}
      /\ (mainPc = "pong" /\ mainPc' # "pong") =>
           req' = [req EXCEPT ![ws] = IF sent'[PongEnv].st = "ok" THEN @ + 1 ELSE @] ]_vars

C7_Witness ==
  \E k \in 1..Len(frames) : \E i \in 1..Len(sent) :
    /\ frames[k].tc = "ping" /\ sent[i].by = k /\ sent[i].tc = "pong" /\ sent[i].st = "ok"
    /\ sent[i].req = 2

\* C8: the join envelope of every connection, a reconnect included, carries
\* sequence 1, and the counter is 2 at the moment its send completes.
C8_Reconnect ==
  [][ /\ \A i \in 1..Len(sent') : sent'[i].tc = "join" => sent'[i].req = 1
      /\ \A s \in 1..Len(req') : (JoinOk(sent', s) /\ ~JoinOk(sent, s)) => req'[s] = 2 ]_vars

C8_Witness ==
  /\ conn = 2 /\ req[1] > 2
  /\ \E i \in 1..Len(sent) : sent[i].s = 2 /\ sent[i].tc = "join" /\ sent[i].st = "ok" /\ sent[i].req = 1
  /\ req[2] = 2

\* C9: a ban, unban, stream_moder_allow or stream_moder_close event with
\* success false changes neither the participants nor the ban entries and
\* its handler is not invoked; with success true the ban entry is added or
\* removed (allow and close change nothing) and the handler is invoked once.
C9_SuccessGate ==
  /\ [](\A k \in 1..Len(frames) : (frames[k].tc \in GatedEvents /\ tasks[k].pc # "ready") =>
          IF frames[k].ok THEN tasks[k].inv = 1 /\ tasks[k].pc \in {"done", "raised"}
                          ELSE tasks[k].inv = 0 /\ tasks[k].pc = "dropped")
  /\ [][\A k \in 1..Len(frames) : (frames[k].tc \in GatedEvents /\ Starts(k)) =>
          /\ users' = users
          /\ IF ~frames[k].ok THEN banned' = banned /\ atStart' = atStart
             ELSE /\ atStart'.k = k
                  /\ CASE frames[k].tc = "ban" ->
                            /\ \E b \in banned' : b.h = frames[k].h
                            /\ banned \subseteq banned'
                       [] frames[k].tc = "unban" ->
                            /\ ~ \E b \in banned' : b.h = frames[k].h
                            /\ banned' \subseteq banned
                       [] OTHER -> banned' = banned ]_vars

C9_Witness ==
  \E j, k \in 1..Len(frames) :
    /\ frames[j].tc = "ban" /\ frames[j].ok /\ tasks[j].inv = 1
    /\ \E b \in banned : b.h = frames[j].h
    /\ frames[k].tc = "unban" /\ ~frames[k].ok /\ tasks[k].pc = "dropped"

\* C10: no two participants of the Directory have the same handle, and a
\* join or userlist event that adds handles already in the Directory does
\* not change the number of participants.
C10_UniqueHandle ==
  /\ [](\A u, v \in users : u.handle = v.handle => u = v)
  /\ [][\A k \in 1..Len(frames) : Starts(k) =>
          /\ (frames[k].tc = "join" /\ \E u \in users : u.handle = frames[k].h)
               => Cardinality(users') = Cardinality(users)
          /\ (frames[k].tc = "userlist"
              /\ \A i \in 1..Len(frames[k].items) : \E u \in users : u.handle = frames[k].items[i].h)
               => Cardinality(users') = Cardinality(users) ]_vars

C10_Witness ==
  \E k \in 1..Len(frames) :
    /\ frames[k].tc = "userlist" /\ tasks[k].pc = "done"
    /\ \E u \in users : u.handle = 1 /\ Len(u.old_nicks) = 2
    /\ \E u \in users : u.handle = 2 /\ Len(u.old_nicks) = 2
    /\ Cardinality(users) = 2

\* C11: a nick event for a participant of the Directory appends the new nick
\* to that participant's nick history: the length grows by exactly 1 and the
\* earlier entries keep their position and value.
C11_NickAppends ==
  [][\A k \in 1..Len(frames) :
       (Starts(k) /\ frames[k].tc = "nick" /\ \E u \in users : u.handle = frames[k].h) =>
          LET u == Search(users, frames[k].h)
              v == Search(users', frames[k].h)
          IN /\ v.handle = frames[k].h
             /\ Len(v.old_nicks) = Len(u.old_nicks) + 1
             /\ v.old_nicks[Len(v.old_nicks)] = frames[k].n
             /\ \A i \in 1..Len(u.old_nicks) : v.old_nicks[i] = u.old_nicks[i] ]_vars

C11_Witness ==
  \E k \in 1..Len(frames) : \E u \in users :
    /\ frames[k].tc = "nick" /\ tasks[k].pc = "done" /\ u.handle = frames[k].h
    /\ u.old_nicks = <<"a", "b">>

\* C12: a join for a handle not in the Directory creates a participant with
\* the joined nick and the nick history [nick]; the previous nick on_nick
\* reports is the nick the participant held just before the rename.
C12_JoinAndOldNick ==
  [][\A k \in 1..Len(frames) : Starts(k) =>
       /\ (frames[k].tc = "join" /\ ~ \E u \in users : u.handle = frames[k].h) =>
            LET v == Search(atStart'.dir.users, frames[k].h)
            IN v.handle = frames[k].h /\ v.nick = frames[k].n /\ v.old_nicks = <<frames[k].n>>
       /\ (frames[k].tc = "nick" /\ \E u \in users : u.handle = frames[k].h) =>
            /\ atStart'.k = k /\ atStart'.arg = frames[k].h
            /\ OldNick(Search(atStart'.dir.users, atStart'.arg)) = Search(users, frames[k].h).nick ]_vars

C12_Witness ==
  /\ Len(frames) = 3 /\ tasks[3].pc = "done"
  /\ frames[1].tc = "join" /\ frames[2].tc = "nick" /\ frames[3].tc = "nick"
  /\ frames[1].h = 2 /\ frames[2].h = 2 /\ frames[3].h = 2
  /\ Search(users, 2).old_nicks = <<"a", "b", "b">>

\* C13: the list on_userlist is called with holds no participant with the
\* client's own handle, and every listed participant, the client's own entry
\* included, is in the Directory.
C13_UserlistPayload ==
  (atStart.k > 0 /\ frames[atStart.k].tc = "userlist") =>
     /\ \A i \in 1..Len(atStart.list) : atStart.list[i] # atStart.dir.client
     /\ \A i \in 1..Len(frames[atStart.k].items) :
          /\ \E u \in atStart.dir.users : u.handle = frames[atStart.k].items[i].h
          /\ frames[atStart.k].items[i].h # atStart.dir.client
               => \E j \in 1..Len(atStart.list) : atStart.list[j] = frames[atStart.k].items[i].h

C13_Witness ==
  /\ atStart.k > 0 /\ frames[atStart.k].tc = "userlist"
  /\ atStart.dir.client = 1 /\ atStart.list = <<2>>
  /\ \E u \in atStart.dir.users : u.handle = 1

\* C14: a quit event removes the participant with that handle and on_quit is
\* called with the removed participant; for a handle not in the Directory the
\* Directory is unchanged, on_quit is called with None and ends without raising.
C14_Quit ==
  [][\A k \in 1..Len(frames) : (Starts(k) /\ frames[k].tc = "quit") =>
       /\ users' = {u \in users : u.handle # frames[k].h}
       /\ banned' = banned /\ client' = client
       /\ atStart'.k = k
       /\ atStart'.arg = (IF \E u \in users : u.handle = frames[k].h THEN frames[k].h ELSE 0)
       /\ tasks'[k].inv = 1 /\ tasks'[k].pc = "done" ]_vars

C14_Witness ==
  \E j, k \in 1..Len(frames) :
    /\ j < k /\ frames[j].tc = "quit" /\ frames[k].tc = "quit"
    /\ tasks[j].pc = "done" /\ tasks[k].pc = "done" /\ atStart.k = k /\ atStart.arg = 0
    /\ frames[1].tc = "join" /\ frames[1].h = 2 /\ users = {}

\* C15: a connect whose gateway fetch gave no response, or a response that
\* lacks the token or the endpoint, ends as a failure with no websocket
\* object opened and no join envelope sent: sockets and join envelopes come
\* only from connects whose gateway fetch gave both fields.
C15_GatewayUnavailable ==
  /\ \A a \in 1..Len(attempts) : attempts[a].gw # "ok" =>
       /\ attempts[a].s = 0 /\ attempts[a].open = "na"
       /\ attempts[a].end \notin {"", "loop", "closed", "handshake"}
  /\ conn = Cardinality({a \in 1..Len(attempts) : attempts[a].s # 0 /\ attempts[a].gw = "ok"})
  /\ \A i \in 1..Len(sent) : sent[i].tc = "join" =>
       \E a \in 1..Len(attempts) : attempts[a].s = sent[i].s /\ attempts[a].gw = "ok"

C15_Witness ==
  /\ Len(attempts) = 2 /\ attempts[1].end = "closed" /\ JoinOk(sent, 1)
  /\ attempts[2].gw = "none" /\ mainPc = "raised"

\* C16: a connect whose socket open ran into the 60 s timeout ends as a
\* failure and sends no join envelope: every join envelope belongs to a
\* connect whose socket open succeeded.
C16_ConnectTimeout ==
  /\ \A a \in 1..Len(attempts) : attempts[a].open = "timeout" =>
       /\ attempts[a].gw = "ok" /\ attempts[a].s = 0
       /\ attempts[a].end \notin {"", "loop", "closed", "handshake"}
  /\ \A i \in 1..Len(sent) : sent[i].tc = "join" =>
       \E a \in 1..Len(attempts) : attempts[a].s = sent[i].s /\ attempts[a].open = "ok"
  /\ Cardinality({i \in 1..Len(sent) : sent[i].tc = "join"})
       <= Cardinality({a \in 1..Len(attempts) : attempts[a].open = "ok"})

C16_Witness ==
  /\ Len(attempts) = 2 /\ attempts[1].end = "closed" /\ JoinOk(sent, 1)
  /\ attempts[2].open = "timeout" /\ mainPc = "raised"
  /\ Cardinality({i \in 1..Len(sent) : sent[i].tc = "join"}) = 1

\* C17: when the socket is not open once the join envelope was sent, connect
\* ends without entering the receive loop (as a handshake failure when the
\* send itself completed), no frame is received by that step, and frames are
\* received only in connects that entered the loop with an open socket.
C17_HandshakeFailed ==
  [][/\ (/\ mainPc \in {"rtc", "joinsend"} /\ mainPc' \notin {"rtc", "joinsend"}
         /\ ~wsOpen
         /\ \E i \in 1..Len(sent') : sent'[i].s = conn /\ sent'[i].tc = "join") =>
           /\ mainPc' \in {"idle", "raised"}
           /\ attempts'[Len(attempts')].end \in {"handshake", "ConnectionClosed"}
           /\ JoinOk(sent', conn) => (mainPc' = "idle" /\ attempts'[Len(attempts')].end = "handshake")
           /\ frames' = frames /\ tasks' = tasks
     /\ \A a \in 1..Len(attempts) :
          attempts[a].end \in {"handshake", "ConnectionClosed"} => attempts'[a] = attempts[a]
     /\ Received => (Len(attempts) > 0 /\ attempts[Len(attempts)].end = "loop") ]_vars

C17_Witness ==
  /\ Len(attempts) = 2 /\ attempts[1].end = "handshake" /\ JoinOk(sent, 1)
  /\ attempts[2].end = "loop" /\ Len(frames) > 0

\* C18: no failure of a session (gateway response absent or malformed,
\* connect timeout, handshake failure, closure in mid-session) leaves
\* connect as an exception: no call of connect ends with one.
C18_NoEscape ==
  /\ mainPc # "raised"
  /\ \A a \in 1..Len(attempts) : attempts[a].end \notin Exceptions

\* C19: when the socket is closed while the receive loop waits for a frame,
\* the loop ends, connect returns normally, and no frame is received or
\* dispatched for that session afterwards.
C19_ClosedEndsLoop ==
  [][/\ Received => (mainPc = "loop" /\ wsOpen /\ attempts[Len(attempts)].end = "loop")
     /\ Len(tasks') > Len(tasks) => Received
     /\ (mainPc = "loop" /\ ~wsOpen /\ mainPc' # mainPc) =>
          /\ mainPc' = "idle"
          /\ attempts'[Len(attempts')].end = "closed"
          /\ frames' = frames /\ tasks' = tasks
     /\ (mainPc = "loop" /\ mainPc' \notin {"loop", "pong"}) => (~wsOpen /\ mainPc' = "idle")
     /\ \A a \in 1..Len(attempts) : attempts[a].end = "closed" => attempts'[a] = attempts[a] ]_vars

C19_Witness ==
  /\ Len(attempts) = 2 /\ attempts[1].end = "closed" /\ attempts[2].end = "loop"
  /\ Len(frames) = 2 /\ mainPc = "loop"

\* C20: a call of disconnect sends a close with code 1001 exactly when the
\* websocket object the client holds is open; on a closed or never opened
\* socket nothing is sent, so a websocket object gets at most one close from
\* any number of disconnects.
C20_CloseOnce ==
  /\ \A d \in 1..Len(discs) :
       /\ discs[d].close <=> discs[d].open
       /\ discs[d].s = 0 => ~discs[d].close
  /\ \A s \in 1..conn : Cardinality({d \in 1..Len(discs) : discs[d].s = s /\ discs[d].close}) <= 1

C20_Witness ==
  /\ Len(discs) = 3
  /\ discs[1].s = 0 /\ ~discs[1].close
  /\ discs[2].s = 1 /\ discs[2].close
  /\ discs[3].s = 1 /\ ~discs[3].close

\* C21 (as stated): every password request whose prompt has ended has exactly
\* one of two outcomes: the input arrived and exactly one password command
\* was sent, or the prompt timed out, disconnect was called and no password
\* command was sent.
C21_Original ==
  \A k \in 1..MaxFrames : Resumed(k, "password") =>
     \/ sub[k].got = "input" /\ SentBy(k, "password") = 1 /\ DiscsBy(k) = 0
     \/ sub[k].got = "timeout" /\ SentBy(k, "password") = 0 /\ DiscsBy(k) = 1

\* C21 (amended): as stated, except that an input that arrives when the
\* socket is no longer open sends nothing: the send raises in the handler,
\* and still no disconnect is called.
C21_Amended ==
  \A k \in 1..MaxFrames : Resumed(k, "password") =>
     \/ sub[k].got = "input" /\ SentBy(k, "password") = 1 /\ DiscsBy(k) = 0
     \/ /\ sub[k].got = "input" /\ SentBy(k, "password") = 0 /\ DiscsBy(k) = 0
        /\ tasks[k].pc = "raised" /\ ~IsOpen(ws)
     \/ sub[k].got = "timeout" /\ SentBy(k, "password") = 0 /\ DiscsBy(k) = 1

C21_Witness ==
  \E j, k \in 1..Len(frames) :
    /\ Resumed(j, "password") /\ sub[j].got = "input" /\ SentBy(j, "password") = 1
    /\ Resumed(k, "password") /\ sub[k].got = "timeout" /\ DiscsBy(k) = 1

\* C22: every captcha request whose solver failed (no funds, provider error)
\* has called disconnect and has sent no captcha command.
C22_SolverFailure ==
  \A k \in 1..MaxFrames :
    (Resumed(k, "captcha") /\ sub[k].got \in {"nofunds", "apierror"}) =>
       DiscsBy(k) = 1 /\ SentBy(k, "captcha") = 0

\* C23 (as stated): every captcha request whose solver returned a token has
\* sent exactly one captcha command.
C23_Original ==
  \A k \in 1..MaxFrames :
    (Resumed(k, "captcha") /\ sub[k].got \in {"token", "short"}) => SentBy(k, "captcha") = 1

\* C23 (amended): a returned token longer than 20 characters is sent in
\* exactly one captcha command if the socket is still open, else the send
\* raises and nothing is sent; a token of at most 20 characters is not sent;
\* no handler sends more than one captcha command.
C23_Amended ==
  \A k \in 1..MaxFrames :
    /\ SentBy(k, "captcha") <= 1
    /\ (Resumed(k, "captcha") /\ sub[k].got = "token") =>
          \/ SentBy(k, "captcha") = 1
          \/ SentBy(k, "captcha") = 0 /\ tasks[k].pc = "raised" /\ ~IsOpen(ws)
    /\ (Resumed(k, "captcha") /\ sub[k].got # "token") => SentBy(k, "captcha") = 0

C23_Witness ==
  \E k \in 1..Len(frames) :
    /\ Resumed(k, "captcha") /\ sub[k].got = "token" /\ sub[k].polls = 1
    /\ tasks[k].pc = "done" /\ SentBy(k, "captcha") = 1

\* C24: without a solver key, a captcha request whose handler ran never
\* started the solver, sent no captcha command and called disconnect.
C24_NoKey ==
  \A k \in 1..Len(frames) :
    (~acak /\ frames[k].tc = "captcha" /\ tasks[k].inv = 1) =>
       /\ tasks[k].pc # "solver" /\ sub[k].polls = 0 /\ sub[k].got = ""
       /\ SentBy(k, "captcha") = 0
       /\ DiscsBy(k) = 1

C24_Witness ==
  \E k \in 1..Len(frames) : \E d \in 1..Len(discs) :
    /\ ~acak /\ frames[k].tc = "captcha" /\ tasks[k].inv = 1
    /\ discs[d].by = k /\ discs[d].close /\ ~wsOpen

\* C25: a solver that has been answered not ready MaxPolls times has given
\* up: no solver is still polling after that many answers.
C25_BoundedPolling ==
  \A k \in 1..Len(tasks) : tasks[k].pc = "solver" => sub[k].polls < MaxPolls

\* C26: once a disconnect with clean-up has been made, no handler task takes
\* a step any more.
C26_NoStepAfterTeardown ==
  [][(\E d \in 1..Len(discs) : discs[d].cu) =>
        \A k \in 1..Len(tasks) : tasks'[k] = tasks[k]]_vars

C28_NoHandler ==
  [][/\ (Received /\ NewFrame.tc # "ping" /\ NewFrame.tc \notin HandlerEvents) =>
          /\ tasks' = Append(tasks, Task("none", 0, 0))
          /\ mainPc' = "loop"
          /\ UNCHANGED <<sent, req, users, banned, client, atStart, wsOpen, discs, sub>>
     /\ \A k \in 1..Len(tasks) : tasks[k].pc = "none" => tasks'[k] = tasks[k] ]_vars

C28_Witness ==
  /\ Len(frames) >= 2 /\ frames[1] = Iceservers /\ tasks[1].pc = "none"
  /\ frames[2] = Password /\ tasks[2].pc = "done" /\ SentBy(2, "password") = 1

\* C29: for an event the normalizer has no branch for, the handler named
\* after the event is called with the event data as received, and the
\* normalization changes neither the participant table nor the ban set.
C29_PassThrough ==
  [][\A k \in 1..Len(frames) : (Starts(k) /\ frames[k].tc \notin KnownEvents) =>
        /\ tasks'[k].inv = 1
        /\ atStart'.k = k /\ atStart'.arg = frames[k]
        /\ atStart'.dir = DirNow ]_vars

C29_Witness ==
  /\ atStart.k > 0 /\ frames[atStart.k] = Closed /\ atStart.arg = Closed
  /\ tasks[atStart.k].inv = 1 /\ tasks[atStart.k].pc = "done"

\* C30: a new connect attempt is made only by a new call of connect, after
\* the call before it has returned: the step that ends a session, the
\* handler of a closed event or any other task never starts one.
C30_NoAutoReconnect ==
  [][Len(attempts') > Len(attempts) =>
        /\ Len(attempts') = Len(attempts) + 1
        /\ mainPc = "idle"
        /\ Len(attempts) > 0 => attempts[Len(attempts)].end \in {"handshake", "closed"}
        /\ tasks' = tasks /\ frames' = frames ]_vars

C30_Witness ==
  /\ Len(attempts) = 2 /\ attempts[1].end = "closed" /\ attempts[2].end = "loop"
  /\ \E k \in 1..Len(frames) : frames[k] = Closed /\ tasks[k].pc = "done"

\* C31: at any time at most one websocket object of the client is open.
C31_OneOpen == Cardinality({s \in 1..conn : IsOpen(s)}) <= 1

\* the participant a handler is given for handle h: the entry of the
\* Directory U with that handle (named by its handle), 0 (None) without one
Sender(U, h) == IF \E u \in U : u.handle = h THEN h ELSE 0

\* C32 (as stated): the handler of a msg, pvtmsg, yut_play, yut_pause or
\* yut_stop event is called with two arguments, the participant of the
\* sender's handle (None if the handle is absent or unknown) and the message.
C32_Original ==
  [][\A k \in 1..Len(frames) : (Starts(k) /\ frames[k].tc \in MessageEvents) =>
        /\ tasks'[k].inv = 1 /\ atStart'.k = k
        /\ atStart'.argc = 2
        /\ atStart'.arg = Sender(users, frames[k].h)
        /\ atStart'.msg = Message(frames[k]) ]_vars

\* C32 (amended): as stated for msg, pvtmsg, yut_play and yut_pause; the
\* handler of a yut_stop event is called with one argument, the message.
C32_Amended ==
  [][\A k \in 1..Len(frames) : (Starts(k) /\ frames[k].tc \in MessageEvents) =>
        /\ tasks'[k].inv = 1 /\ atStart'.k = k
        /\ atStart'.msg = Message(frames[k])
        /\ IF frames[k].tc = "yut_stop"
           THEN atStart'.argc = 1
           ELSE atStart'.argc = 2 /\ atStart'.arg = Sender(users, frames[k].h) ]_vars

C32_Witness ==
  \E j \in 1..Len(frames) :
    /\ frames[j].tc = "msg" /\ tasks[j].pc = "done" /\ Search(users, 2).msgs # <<>>
    /\ atStart.k > j /\ frames[atStart.k].tc = "yut_stop"
    /\ atStart.argc = 1 /\ atStart.msg = Message(frames[atStart.k])

\* C33: when the handler of a text or media event whose sender is in the
\* Directory has completed, the message has been appended to the sender's
\* message log, and no step changes a message log in any other way.
C33_Logged ==
  [][/\ \A k \in 1..Len(frames) :
          (Starts(k) /\ tasks'[k].pc = "done" /\ frames[k].tc \in MessageEvents
             /\ Sender(users, frames[k].h) # 0) =>
               Search(users', frames[k].h).msgs = Append(Search(users, frames[k].h).msgs, Message(frames[k]))
     /\ \A u \in users : \A v \in users' : u.handle = v.handle =>
          \/ v.msgs = u.msgs
          \/ \E k \in 1..Len(frames) : Starts(k) /\ v.msgs = Append(u.msgs, Message(frames[k])) ]_vars

\* the frame whose handler body runs in this step is a system notice or a
\* pending_moderation event of the given kind
Handles(k, tc) == Starts(k) /\ tasks'[k].inv = 1 /\ frames[k].tc = tc

\* C34 (as stated): the green room flag changes only in the handler of a
\* system notice, to true on an 'enabled' and to false on a 'disabled' notice.
C34_Original ==
  [][greenroom' # greenroom =>
       \E k \in 1..Len(frames) :
          /\ Handles(k, "sysmsg")
          /\ \/ Contains(frames[k].n, "green room enabled") /\ greenroom'
             \/ Contains(frames[k].n, "green room disabled") /\ ~greenroom' ]_vars

\* C34 (amended): the flag changes only in the handler of an 'enabled' notice
\* (to true), of a 'disabled' notice (to false) or of a pending_moderation
\* event (to true); such a notice sets it unless it is handled as a ban
\* notice, a pending_moderation event always sets it, and a change of the
\* room settings leaves it.
C34_Amended ==
  [][/\ greenroom' # greenroom =>
          \E k \in 1..Len(frames) :
             \/ Handles(k, "sysmsg") /\ Contains(frames[k].n, "green room enabled") /\ greenroom'
             \/ Handles(k, "sysmsg") /\ Contains(frames[k].n, "green room disabled") /\ ~greenroom'
             \/ Handles(k, "pending_moderation") /\ greenroom'
     /\ \A k \in 1..Len(frames) :
          /\ (Handles(k, "sysmsg") /\ frames[k].n = "green room enabled") => greenroom'
          /\ (Handles(k, "sysmsg") /\ frames[k].n = "green room disabled") => ~greenroom'
          /\ Handles(k, "pending_moderation") => greenroom'
          /\ Handles(k, "room_settings") => greenroom' = greenroom ]_vars

C34_Witness ==
  \E j, k \in 1..Len(frames) :
    /\ j < k /\ frames[j].tc = "pending_moderation" /\ tasks[j].pc = "done"
    /\ frames[k] = Sysmsg("green room disabled") /\ tasks[k].pc = "done"
    /\ Search(users, 2).wait /\ ~greenroom


C39_NotBoth == \A u \in users : ~(u.bc /\ u.wait)

\* C36: the participant table and the ban set change only in the task of a
\* frame whose event has a handler; a frame of an event without a handler
\* gets no task, changes neither, and nothing ever runs for it.
C36_OnlyWithHandler ==
  [][/\ \A k \in 1..Len(frames) : Starts(k) => frames[k].tc \in handlers
     /\ (users' # users \/ banned' # banned) =>
          \E k \in 1..Len(frames) : Starts(k) /\ frames[k].tc \in handlers
     /\ (Received /\ NewFrame.tc \notin handlers) =>
          /\ tasks'[Len(tasks')].pc = "none"
          /\ users' = users /\ banned' = banned
     /\ \A k \in 1..Len(tasks) : tasks[k].pc = "none" => tasks'[k] = tasks[k] ]_vars

C36_Witness ==
  /\ "join" \notin handlers /\ Len(frames) = 3
  /\ frames[1] = Join(2, "a", FALSE) /\ tasks[1].pc = "none"
  /\ frames[2].tc = "banlist" /\ tasks[2].pc = "done"
  /\ frames[3].tc = "nick" /\ tasks[3].pc = "raised"
  /\ users = {} /\ banned # {}

\* C37: on every websocket object the first envelope written is the join
\* envelope; a frame is received and a task is made only on a websocket
\* object whose join envelope has been sent, and every other envelope is
\* written only after the send of the join envelope has completed.
C37_JoinFirst ==
  [][/\ \A s \in 1..conn' : \A i \in 1..Len(sent') :
          (sent'[i].s = s /\ \A j \in 1..Len(sent') : sent'[j].s = s => i <= j)
            => sent'[i].tc = "join"
     /\ Received => JoinOk(sent, ws)
     /\ Len(tasks') > Len(tasks) => (Received /\ JoinOk(sent, ws))
     /\ \A i \in 1..Len(sent') :
          (i > Len(sent) /\ sent'[i].tc # "join") => JoinOk(sent, sent'[i].s) ]_vars

C37_Witness ==
  /\ conn = 2 /\ JoinOk(sent, 1) /\ JoinOk(sent, 2)
  /\ \E k \in 1..Len(frames) :
       /\ frames[k].tc = "password" /\ sub[k].got = "input" /\ tasks[k].pc = "raised"
       /\ attempts[2].end = "loop"
  /\ \E i \in 1..Len(sent) : sent[i].s = 2 /\ sent[i].tc = "password" /\ sent[i].st = "ok"

\* C38: every task of a frame whose handler the client has, and which is
\* not a frame of a success-gated event with success false, once it has
\* taken its first step and was not cancelled, has called the handler
\* exactly once: no such task ends without the call (under fair scheduling
\* every ready task takes its first step).
C38_Invoked ==
  \A k \in 1..Len(tasks) :
    ( /\ Registered(frames[k].tc)
      /\ ~(frames[k].tc \in GatedEvents /\ ~frames[k].ok)
      /\ tasks[k].pc \notin {"none", "ready", "cancelled"} ) => tasks[k].inv = 1

\* C40: a call of web.request in which session.request fails gives None to
\* its caller and raises nothing, whatever the request method and whatever
\* session.request raised.
C40_NoneNeverRaises ==
  \A i \in 1..Len(web) :
    web[i].outcome # "response" => (web[i].ret = "None" /\ web[i].raised = "")

C40_Witness ==
  /\ Len(web) = 2
  /\ web[1].method = "POST" /\ web[1].outcome = "CancelledError" /\ web[1].ret = "None"
  /\ web[2].method = "GET" /\ web[2].outcome = "ClientError" /\ web[2].ret = "None"

=============================================================================
